---- MODULE Spec2Model ----
(***************************************************************************)
(* Sentence structure analyzer (structure_analyzer.py).                    *)
(*                                                                         *)
(* A text is a sequence of one-character strings, a span is the tuple      *)
(* <<start, end, type>> of the source (0-based, end exclusive).            *)
(***************************************************************************)
EXTENDS Integers, Sequences, FiniteSets, TLC

VARIABLES
    _NLP,       \* module-level parser handle: "None" or "nlp"
    fn,         \* the function whose call the state records ("idle" before any)
    text,       \* the text argument of that call
    spans,      \* the span-list argument of that call (<<>> when it has none)
    extractor,  \* which extractor the call invoked: "none", "spacy", "fallback"
    parser_did, \* what _NLP(text) did in the call: "not called", "raise", "return"
    raised,     \* TRUE when the call ended by raising instead of returning
    ret,        \* the value the call returned
    calls,      \* per worker thread: the call of analyze_structure it is in
    sys_modules,    \* the modules of the repository imported so far
    loads,          \* how many times spacy.load has returned a parser
    paragraph_NLP,  \* the handle _NLP of routers/paragraph.py
    spacy_doc,      \* doc of the latest direct call of _analyze_spacy
    paragraph,      \* the request analyze_paragraph is serving
    flow            \* the latest request summary_flow has served

\* what the calls recorded in fn .. ret leave alone
elsewhere == <<calls, sys_modules, loads, paragraph_NLP, spacy_doc, paragraph, flow>>

vars == <<_NLP, fn, text, spans, extractor, parser_did, raised, ret, calls,
          sys_modules, loads, paragraph_NLP, spacy_doc, paragraph, flow>>

----------------------------------------------------------------------------
(* Category model *)

CLAUSE_TYPES == {"noun_clause", "adj_clause", "adv_clause"}
PHRASE_TYPES == {"pp", "short_phrase"}
NONFINITE_TYPES == {"to_inf", "participle"}

priority_clause_first(t) ==
    IF t \in CLAUSE_TYPES THEN 3
    ELSE IF t \in PHRASE_TYPES THEN 2
    ELSE 1

_priority(t) ==
    IF t \in NONFINITE_TYPES THEN 3
    ELSE IF t \in CLAUSE_TYPES THEN 2
    ELSE 1

----------------------------------------------------------------------------
(* Span resolver *)

\* sort key of _flatten_spans: (start, -(length), -priority), compared as tuples
flatten_key_start_only(s) == <<s[1], 0, 0>>

flatten_key(s) == <<s[1], -(s[2] - s[1]), -_priority(s[3])>>

key_less(a, b) ==
    \/ a[1] < b[1]
    \/ a[1] = b[1] /\ a[2] < b[2]
    \/ a[1] = b[1] /\ a[2] = b[2] /\ a[3] < b[3]

\* one step of a stable insertion: x goes behind every element not greater
RECURSIVE insert_by_key(_, _)
insert_by_key(x, seq) ==
    IF seq = <<>> THEN <<x>>
    ELSE IF key_less(flatten_key(x), flatten_key(Head(seq)))
         THEN <<x>> \o seq
         ELSE <<Head(seq)>> \o insert_by_key(x, Tail(seq))

\* sorted(spans, key=...): stable, ascending
RECURSIVE sorted_spans(_)
sorted_spans(ss) ==
    IF ss = <<>> THEN <<>>
    ELSE insert_by_key(ss[Len(ss)], sorted_spans(SubSeq(ss, 1, Len(ss) - 1)))

\* the overlap test of the sweep
overlap_crossing_only(s, last) == s[1] < last[2] /\ s[2] > last[2]

overlap(s, last) == s[1] < last[2] /\ s[2] > last[1]

\* on an overlap of equal priority the last span is stretched over the candidate
RECURSIVE sweep_merging(_, _)
sweep_merging(ss, out) ==
    IF ss = <<>> THEN out
    ELSE LET s == Head(ss) IN
         IF out = <<>> THEN sweep_merging(Tail(ss), <<s>>)
         ELSE LET last == out[Len(out)] IN
              IF overlap(s, last)
              THEN IF _priority(s[3]) > _priority(last[3])
                   THEN sweep_merging(Tail(ss), [out EXCEPT ![Len(out)] = s])
                   ELSE IF _priority(s[3]) = _priority(last[3]) /\ s[2] > last[2]
                   THEN sweep_merging(Tail(ss), [out EXCEPT ![Len(out)] = <<last[1], s[2], last[3]>>])
                   ELSE sweep_merging(Tail(ss), out)
              ELSE sweep_merging(Tail(ss), Append(out, s))

RECURSIVE sweep_never_replaces(_, _)
sweep_never_replaces(ss, out) ==
    IF ss = <<>> THEN out
    ELSE IF out = <<>> \/ ~overlap(Head(ss), out[Len(out)])
         THEN sweep_never_replaces(Tail(ss), Append(out, Head(ss)))
         ELSE sweep_never_replaces(Tail(ss), out)

RECURSIVE sweep(_, _)
sweep(ss, out) ==
    IF ss = <<>> THEN out
    ELSE LET s == Head(ss) IN
         IF out = <<>> THEN sweep(Tail(ss), <<s>>)
         ELSE LET last == out[Len(out)] IN
              IF overlap(s, last)
              THEN IF _priority(s[3]) > _priority(last[3])
                   THEN sweep(Tail(ss), [out EXCEPT ![Len(out)] = s])
                   ELSE sweep(Tail(ss), out)
              ELSE sweep(Tail(ss), Append(out, s))

flatten_unsorted(ss) == sweep(ss, <<>>)

_flatten_spans(ss) == sweep(sorted_spans(ss), <<>>)

----------------------------------------------------------------------------
(* Bracket materializer *)

\* code points of the six marker characters (the order tuples sort by)
ord(ch) ==
    CASE ch = "(" -> 40
      [] ch = ")" -> 41
      [] ch = "[" -> 91
      [] ch = "]" -> 93
      [] ch = "{" -> 123
      [] ch = "}" -> 125

bracket_pair_clause_only(t) ==
    IF t \in CLAUSE_TYPES THEN <<"[", "]">> ELSE <<"(", ")">>

bracket_pair(t) ==
    IF t \in CLAUSE_TYPES THEN <<"[", "]">>
    ELSE IF t \in NONFINITE_TYPES THEN <<"{", "}">>
    ELSE <<"(", ")">>

\* the inserts list: per span (end, closing) then (start, opening)
RECURSIVE build_inserts(_)
build_inserts(ss) ==
    IF ss = <<>> THEN <<>>
    ELSE LET s == Head(ss)
             p == bracket_pair(s[3])
         IN <<<<s[2], p[2]>>, <<s[1], p[1]>>>> \o build_inserts(Tail(ss))

\* tuple order of (idx, ch)
insert_less(a, b) == a[1] < b[1] \/ (a[1] = b[1] /\ ord(a[2]) < ord(b[2]))

RECURSIVE insert_desc(_, _)
insert_desc(x, seq) ==
    IF seq = <<>> THEN <<x>>
    ELSE IF insert_less(Head(seq), x)
         THEN <<x>> \o seq
         ELSE <<Head(seq)>> \o insert_desc(x, Tail(seq))

sort_skipped(ins) == ins

\* inserts.sort(reverse=True)
RECURSIVE sort_reverse(_)
sort_reverse(ins) ==
    IF ins = <<>> THEN <<>>
    ELSE insert_desc(ins[Len(ins)], sort_reverse(SubSeq(ins, 1, Len(ins) - 1)))

\* out[idx:idx] = [ch], idx clamped to [0, len(out)]
insert_at(out, idx, ch) ==
    LET i == IF idx < 0 THEN 0 ELSE IF idx > Len(out) THEN Len(out) ELSE idx
    IN SubSeq(out, 1, i) \o <<ch>> \o SubSeq(out, i + 1, Len(out))

RECURSIVE apply_inserts(_, _)
apply_inserts(out, ins) ==
    IF ins = <<>> THEN out
    ELSE apply_inserts(insert_at(out, Head(ins)[1], Head(ins)[2]), Tail(ins))

apply_brackets_skip_at_end(t, ss) ==
    apply_inserts(t, SelectSeq(sort_reverse(build_inserts(ss)),
                               LAMBDA i : i[1] < Len(t)))

_apply_brackets(t, ss) == apply_inserts(t, sort_reverse(build_inserts(ss)))

----------------------------------------------------------------------------
(* Characters and the regex primitives of the pattern extractor.           *)
(* Offsets are 0-based as in the source: at(t, i) is text[i].              *)

LOWER == <<"a", "b", "c", "d", "e", "f", "g", "h", "i", "j", "k", "l", "m", "n", "o", "p", "q", "r", "s", "t", "u", "v", "w", "x", "y", "z">>
UPPER == <<"A", "B", "C", "D", "E", "F", "G", "H", "I", "J", "K", "L", "M", "N", "O", "P", "Q", "R", "S", "T", "U", "V", "W", "X", "Y", "Z">>
LETTERS == {LOWER[i] : i \in 1..26} \cup {UPPER[i] : i \in 1..26}
DIGITS == {"0", "1", "2", "3", "4", "5", "6", "7", "8", "9"}
\* \w, \s, [a-zA-Z] and the complement of [^.?!,;]
WORD_CHARS == LETTERS \cup DIGITS \cup {"_"}
SPACE_CHARS == {" ", "\t", "\n", "\r", "\f"}
CLAUSE_END == {".", "?", "!", ",", ";"}

\* re.I: compare lower-cased
lower(c) ==
    IF \E i \in 1..26 : UPPER[i] = c
    THEN LOWER[CHOOSE i \in 1..26 : UPPER[i] = c]
    ELSE c

at(t, i) == t[i + 1]

is_word_at(t, i) == i >= 0 /\ i < Len(t) /\ at(t, i) \in WORD_CHARS

\* \b at offset i
word_boundary(t, i) == is_word_at(t, i - 1) # is_word_at(t, i)

\* the literal w (lower case) at offset i, ignoring case
literal_at(t, i, w) ==
    /\ i + Len(w) <= Len(t)
    /\ \A k \in 1..Len(w) : lower(at(t, i + k - 1)) = w[k]

\* greedy X* for a character class: the offset where the run from i ends
RECURSIVE run_in(_, _, _)
run_in(t, i, class) ==
    IF i < Len(t) /\ at(t, i) \in class THEN run_in(t, i + 1, class) ELSE i

\* greedy [^...]*
RECURSIVE run_not_in(_, _, _)
run_not_in(t, i, class) ==
    IF i < Len(t) /\ at(t, i) \notin class THEN run_not_in(t, i + 1, class) ELSE i

\* (?:\s+\w+){0,n} from offset j: the offset where the greedy repetition ends
RECURSIVE more_words(_, _, _)
more_words(t, j, n) ==
    IF n = 0 THEN j
    ELSE LET a == run_in(t, j, SPACE_CHARS)
             b == run_in(t, a, WORD_CHARS)
         IN IF a = j \/ b = a THEN j ELSE more_words(t, b, n - 1)

NO_MATCH == -1

TO_INF_MORE == 5
PP_MORE == 3

\* _TO_INF_RE = \bto\s+[a-zA-Z]+(?:\s+\w+){0,5}, re.I: end of the match that
\* starts at i, or NO_MATCH
TO_INF_RE(t, i) ==
    IF ~(word_boundary(t, i) /\ literal_at(t, i, <<"t", "o">>)) THEN NO_MATCH
    ELSE LET a == run_in(t, i + 2, SPACE_CHARS)
             b == run_in(t, a, LETTERS)
         IN IF a = i + 2 \/ b = a THEN NO_MATCH ELSE more_words(t, b, TO_INF_MORE)

PP_WORDS ==
    { <<"o", "f">>, <<"i", "n">>, <<"o", "n">>,
      <<"a", "t">>, <<"f", "o", "r">>, <<"t", "o">>,
      <<"w", "i", "t", "h">>, <<"f", "r", "o", "m">>, <<"a", "b", "o", "u", "t">>,
      <<"o", "v", "e", "r">>, <<"u", "n", "d", "e", "r">>, <<"i", "n", "t", "o">>,
      <<"o", "n", "t", "o">>, <<"t", "h", "r", "o", "u", "g", "h">>, <<"w", "i", "t", "h", "o", "u", "t">>,
      <<"w", "i", "t", "h", "i", "n">>, <<"b", "e", "t", "w", "e", "e", "n">>, <<"a", "m", "o", "n", "g">> }

\* _PP_RE = \b(of|in|...|among)\s+\w+(?:\s+\w+){0,3}\b, re.I. Only the
\* alternative that whitespace follows can go on; the closing \b holds after a
\* greedy \w+, it is evaluated all the same.
PP_RE(t, i) ==
    LET ws == {w \in PP_WORDS : literal_at(t, i, w)
                                /\ run_in(t, i + Len(w), SPACE_CHARS) > i + Len(w)}
    IN IF ~word_boundary(t, i) \/ ws = {} THEN NO_MATCH
       ELSE LET w == CHOOSE w \in ws : TRUE
                a == run_in(t, i + Len(w), SPACE_CHARS)
                b == run_in(t, a, WORD_CHARS)
                e == more_words(t, b, PP_MORE)
            IN IF b = a \/ ~word_boundary(t, e) THEN NO_MATCH ELSE e

REL_WORDS ==
    { <<"w", "h", "i", "c", "h">>, <<"w", "h", "o">>, <<"w", "h", "o", "m">>,
      <<"w", "h", "o", "s", "e">>, <<"t", "h", "a", "t">> }

\* _REL_CLAUSE_RE = (?:,?\s*)\b(?:which|who(?:m)?|whose|that)\b[^.?!,;]*, re.I
REL_CLAUSE_RE(t, i) ==
    LET c == IF i < Len(t) /\ at(t, i) = "," THEN i + 1 ELSE i
        a == run_in(t, c, SPACE_CHARS)
        ws == {w \in REL_WORDS : literal_at(t, a, w) /\ word_boundary(t, a + Len(w))}
    IN IF ~word_boundary(t, a) \/ ws = {} THEN NO_MATCH
       ELSE LET w == CHOOSE w \in ws : TRUE
            IN run_not_in(t, a + Len(w), CLAUSE_END)

ADV_WORDS ==
    { <<"b", "e", "c", "a", "u", "s", "e">>, <<"w", "h", "e", "n">>,
      <<"w", "h", "i", "l", "e">>, <<"a", "l", "t", "h", "o", "u", "g", "h">>,
      <<"t", "h", "o", "u", "g", "h">>, <<"s", "i", "n", "c", "e">>,
      <<"a", "s">>, <<"i", "f">>,
      <<"u", "n", "l", "e", "s", "s">>, <<"u", "n", "t", "i", "l">>,
      <<"o", "n", "c", "e">>, <<"a", "f", "t", "e", "r">>,
      <<"b", "e", "f", "o", "r", "e">>, <<"w", "h", "e", "r", "e", "a", "s">>,
      <<"w", "h", "e", "r", "e">>, <<"s", "o", " ", "t", "h", "a", "t">>,
      <<"i", "n", " ", "o", "r", "d", "e", "r", " ", "t", "h", "a", "t">> }

\* _ADV_CONJ_RE = \b(?:because|...|in order that)\b[^.?!,;]*, re.I
ADV_CONJ_RE(t, i) ==
    LET ws == {w \in ADV_WORDS : literal_at(t, i, w) /\ word_boundary(t, i + Len(w))}
    IN IF ~word_boundary(t, i) \/ ws = {} THEN NO_MATCH
       ELSE LET w == CHOOSE w \in ws : TRUE
            IN run_not_in(t, i + Len(w), CLAUSE_END)

\* the compiled pattern whose match at offset i is asked for
match_at(re, t, i) ==
    CASE re = "_TO_INF_RE" -> TO_INF_RE(t, i)
      [] re = "_PP_RE" -> PP_RE(t, i)
      [] re = "_REL_CLAUSE_RE" -> REL_CLAUSE_RE(t, i)
      [] re = "_ADV_CONJ_RE" -> ADV_CONJ_RE(t, i)

\* pattern.finditer(text): the matches <<start, end>> left to right, each
\* search resuming where the previous match ended (no pattern matches empty)
RECURSIVE finditer(_, _, _)
finditer(re, t, pos) ==
    IF pos >= Len(t) THEN <<>>
    ELSE LET e == match_at(re, t, pos)
         IN IF e = NO_MATCH THEN finditer(re, t, pos + 1)
            ELSE <<<<pos, e>>>> \o finditer(re, t, e)

----------------------------------------------------------------------------
(* Pattern extractor *)

MIN_CLAUSE_LEN == 5

\* while s < e and text[s] in {",", " "}: s += 1
RECURSIVE trim_start(_, _, _)
trim_start(t, s, e) ==
    IF s < e /\ at(t, s) \in {",", " "} THEN trim_start(t, s + 1, e) ELSE s

RECURSIVE typed(_, _)
typed(ms, type) ==
    IF ms = <<>> THEN <<>>
    ELSE <<<<Head(ms)[1], Head(ms)[2], type>>>> \o typed(Tail(ms), type)

\* the relative clauses appended with the type of the adverbial ones
RECURSIVE rel_spans_as_adv(_, _)
rel_spans_as_adv(t, ms) ==
    IF ms = <<>> THEN <<>>
    ELSE LET e == Head(ms)[2]
             s == trim_start(t, Head(ms)[1], e)
         IN (IF e - s >= MIN_CLAUSE_LEN THEN <<<<s, e, "adv_clause">>>> ELSE <<>>)
            \o rel_spans_as_adv(t, Tail(ms))

RECURSIVE rel_spans(_, _)
rel_spans(t, ms) ==
    IF ms = <<>> THEN <<>>
    ELSE LET e == Head(ms)[2]
             s == trim_start(t, Head(ms)[1], e)
         IN (IF e - s >= MIN_CLAUSE_LEN THEN <<<<s, e, "adj_clause">>>> ELSE <<>>)
            \o rel_spans(t, Tail(ms))

RECURSIVE adv_spans(_)
adv_spans(ms) ==
    IF ms = <<>> THEN <<>>
    ELSE LET s == Head(ms)[1]
             e == Head(ms)[2]
         IN (IF e - s >= MIN_CLAUSE_LEN THEN <<<<s, e, "adv_clause">>>> ELSE <<>>)
            \o adv_spans(Tail(ms))

\* the candidate list of _analyze_fallback, in the order it is appended
fallback_candidates(t) ==
    typed(finditer("_TO_INF_RE", t, 0), "to_inf")
    \o typed(finditer("_PP_RE", t, 0), "pp")
    \o rel_spans(t, finditer("_REL_CLAUSE_RE", t, 0))
    \o adv_spans(finditer("_ADV_CONJ_RE", t, 0))

_analyze_fallback(t) == _flatten_spans(fallback_candidates(t))

----------------------------------------------------------------------------
(* Dependency extractor.  The parser is an external library: its document  *)
(* is a choice among the annotations it can give the tokens of the text.   *)
(* A token is <<idx, length>>; the tokens are the maximal runs of          *)
(* non-whitespace characters.                                              *)

RECURSIVE tokens_from(_, _)
tokens_from(t, pos) ==
    IF pos >= Len(t) THEN <<>>
    ELSE IF at(t, pos) \in SPACE_CHARS THEN tokens_from(t, pos + 1)
    ELSE LET e == run_not_in(t, pos, SPACE_CHARS)
         IN <<<<pos, e - pos>>>> \o tokens_from(t, e)

tokens(t) == tokens_from(t, 0)

\* tok.dep_, tok.tag_, tok.pos_ as the parser can label a token; each rule
\* of _analyze_spacy is triggered by one annotation at least
ANNOTATIONS ==
    { [dep |-> "relcl", tag |-> "VBD", pos |-> "VERB"],
      [dep |-> "acl",   tag |-> "VB",  pos |-> "VERB"],
      [dep |-> "acl",   tag |-> "VBG", pos |-> "VERB"],
      [dep |-> "advcl", tag |-> "VBN", pos |-> "VERB"],
      [dep |-> "ccomp", tag |-> "VB",  pos |-> "VERB"],
      [dep |-> "aux",   tag |-> "TO",  pos |-> "PART"],
      [dep |-> "prep",  tag |-> "IN",  pos |-> "ADP"],
      [dep |-> "ROOT",  tag |-> "VB",  pos |-> "VERB"],
      [dep |-> "nsubj", tag |-> "NN",  pos |-> "NOUN"] }

\* k is i or an ancestor of i under the head function (the root is its own head)
RECURSIVE has_ancestor(_, _, _, _)
has_ancestor(head, i, k, fuel) ==
    \/ i = k
    \/ fuel > 0 /\ head[i] # i /\ has_ancestor(head, head[i], k, fuel - 1)

\* the head functions over n tokens that form one tree
trees(n) ==
    { h \in [1..n -> 1..n] :
        \E r \in 1..n : /\ h[r] = r
                        /\ \A i \in 1..n : has_ancestor(h, i, r, n) }

\* the documents _NLP(text) can return
docs(t) ==
    LET n == Len(tokens(t))
    IN IF n = 0 THEN {[tok |-> <<>>, head |-> <<>>, ann |-> <<>>]}
       ELSE { [tok |-> tokens(t), head |-> h, ann |-> a] :
                h \in trees(n), a \in [1..n -> ANNOTATIONS] }

\* list(tok.subtree): the token and its descendants, in document order
subtree(doc, k) ==
    { i \in 1..Len(doc.tok) : has_ancestor(doc.head, i, k, Len(doc.tok)) }

first_of(S) == CHOOSE i \in S : \A j \in S : i <= j
last_of(S) == CHOOSE i \in S : \A j \in S : j <= i

\* span_chars(start_token, end_token)
span_chars(doc, a, b) == <<doc.tok[a][1], doc.tok[b][1] + doc.tok[b][2]>>

subtree_chars_of_head(doc, k) ==
    span_chars(doc, first_of(subtree(doc, doc.head[k])), last_of(subtree(doc, doc.head[k])))

\* (s, e) of subtree[0], subtree[-1]
subtree_chars(doc, k) ==
    span_chars(doc, first_of(subtree(doc, k)), last_of(subtree(doc, k)))

PP_MAX_CHARS == 40

\* the spans one token adds, in the order the loop body appends them
token_spans(doc, k) ==
    LET a == doc.ann[k]
        se == subtree_chars(doc, k)
        hd == doc.head[k]
        hse == subtree_chars(doc, hd)
        ptcp == a.tag \in {"VBG", "VBN"}
    IN (IF a.dep = "relcl" THEN <<<<se[1], se[2], "adj_clause">>>>
        ELSE IF a.dep = "acl"
                /\ ~((\E j \in subtree(doc, k) : doc.ann[j].tag = "TO") \/ ptcp)
             THEN <<<<se[1], se[2], "adj_clause">>>>
             ELSE <<>>)
       \o (IF a.dep = "advcl" THEN <<<<se[1], se[2], "adv_clause">>>> ELSE <<>>)
       \o (IF a.dep = "ccomp" THEN <<<<se[1], se[2], "noun_clause">>>> ELSE <<>>)
       \o (IF a.tag = "TO" /\ doc.ann[hd].pos = "VERB"
           THEN <<<<hse[1], hse[2], "to_inf">>>> ELSE <<>>)
       \o (IF ptcp /\ a.dep \in {"acl", "advcl", "amod", "xcomp"}
           THEN <<<<se[1], se[2], "participle">>>> ELSE <<>>)
       \o (IF a.pos = "ADP" /\ a.dep = "prep" /\ se[2] - se[1] <= PP_MAX_CHARS
           THEN <<<<se[1], se[2], "pp">>>> ELSE <<>>)

RECURSIVE spacy_candidates(_, _)
spacy_candidates(doc, k) ==
    IF k > Len(doc.tok) THEN <<>>
    ELSE token_spans(doc, k) \o spacy_candidates(doc, k + 1)

\* _analyze_spacy(text) once doc = _NLP(text) has returned
_analyze_spacy(doc) == _flatten_spans(spacy_candidates(doc, 1))

----------------------------------------------------------------------------
(* Analysis facade *)

\* not text or not text.strip()
only_empty_is_blank(t) == t = <<>>

is_blank(t) == \A i \in 1..Len(t) : t[i] \in SPACE_CHARS

LEGEND_BLANK ==
    ("[]" :> "clauses") @@ ("()" :> "phrases") @@ ("{}" :> "non-finite")

LEGEND ==
    ("[]" :> "clauses (noun/adj/adv)") @@ ("()" :> "short phrases (PP etc.)")
    @@ ("{}" :> "non-finite (to-inf/participle)")

span_dicts_swapped(ss) == [i \in 1..Len(ss) |-> [start |-> ss[i][2], end |-> ss[i][1], type |-> ss[i][3]]]

\* [{"start": s, "end": e, "type": t} for s, e, t in spans]
span_dicts(ss) == [i \in 1..Len(ss) |-> [start |-> ss[i][1], end |-> ss[i][2], type |-> ss[i][3]]]

EXCEPTION == "exception"

NO_DOC == [tok |-> <<>>, head |-> <<>>, ann |-> <<>>]

\* what the call of _NLP(text) inside analyze_structure can do: it is not
\* reached (blank text, or no parser), it raises, or it returns a document
parser_outcomes(nlp, t) ==
    IF is_blank(t) \/ nlp = "None" THEN {[does |-> "not called", doc |-> NO_DOC]}
    ELSE {[does |-> "raise", doc |-> NO_DOC]}
         \cup {[does |-> "return", doc |-> d] : d \in docs(t)}

\* the dict analyze_structure returns for non-blank text with these spans
result(t, ss) ==
    [text |-> t, analyzed_text |-> _apply_brackets(t, ss),
     spans |-> span_dicts(ss), legend |-> LEGEND]

\* analyze_structure(t), as every caller sees it
analyze_structure_run(t, parse) ==
    /\ fn' = "analyze_structure"
    /\ text' = t
    /\ spans' = <<>>
    /\ UNCHANGED _NLP
    /\ IF is_blank(t)
       THEN /\ extractor' = "none"
            /\ parser_did' = "not called"
            /\ raised' = FALSE
            /\ ret' = [text |-> t, analyzed_text |-> t, spans |-> <<>>,
                       legend |-> LEGEND_BLANK]
       ELSE IF _NLP # "None"
       THEN /\ extractor' = "spacy"
            /\ parser_did' = parse.does
            /\ raised' = (parse.does = "raise")
            /\ ret' = IF parse.does = "raise" THEN EXCEPTION
                      ELSE result(t, _analyze_spacy(parse.doc))
       ELSE /\ extractor' = "fallback"
            /\ parser_did' = "not called"
            /\ raised' = FALSE
            /\ ret' = result(t, _analyze_fallback(t))

\* a call of analyze_structure from outside the routers
analyze_structure(t, parse) ==
    /\ analyze_structure_run(t, parse)
    /\ UNCHANGED elsewhere

\* direct calls of the two helpers, on any argument
flatten_spans_call(ss) ==
    /\ fn' = "_flatten_spans"
    /\ text' = <<>>
    /\ spans' = ss
    /\ extractor' = "none"
    /\ parser_did' = "not called"
    /\ raised' = FALSE
    /\ ret' = _flatten_spans(ss)
    /\ UNCHANGED _NLP
    /\ UNCHANGED elsewhere

apply_brackets_call(t, ss) ==
    /\ fn' = "_apply_brackets"
    /\ text' = t
    /\ spans' = ss
    /\ extractor' = "none"
    /\ parser_did' = "not called"
    /\ raised' = FALSE
    /\ ret' = _apply_brackets(t, ss)
    /\ UNCHANGED _NLP
    /\ UNCHANGED elsewhere

\* the caller has taken the result; the next call can be made
next_call ==
    /\ fn # "idle"
    /\ fn' = "idle"
    /\ text' = <<>>
    /\ spans' = <<>>
    /\ extractor' = "none"
    /\ parser_did' = "not called"
    /\ raised' = FALSE
    /\ ret' = <<>>
    /\ UNCHANGED _NLP
    /\ UNCHANGED elsewhere

----------------------------------------------------------------------------
(* Concurrent calls.  The endpoints are plain functions, which the server   *)
(* runs on worker threads: calls of analyze_structure interleave.  A step   *)
(* is the code between two reads of the module-level handle _NLP; all else  *)
(* a call touches is local to it.                                           *)

WORKERS == {"w1", "w2"}

NOT_CALLED == [does |-> "not called", doc |-> NO_DOC]

NO_CALL == [pc |-> "idle", text |-> <<>>, parse |-> NOT_CALLED, spans |-> <<>>, ret |-> <<>>]

\* everything but the calls of the workers
sequential == <<fn, text, spans, extractor, parser_did, raised, ret,
                sys_modules, loads, paragraph_NLP, spacy_doc, paragraph, flow>>

\* the worker is given a request: analyze_structure(t) is called
call(w, t) ==
    /\ calls[w].pc = "idle"
    /\ calls' = [calls EXCEPT ![w] = [NO_CALL EXCEPT !.pc = "called", !.text = t]]
    /\ UNCHANGED _NLP
    /\ UNCHANGED sequential

\* the blank test, its early return, and the test of _NLP that picks the extractor
enter(w) ==
    /\ calls[w].pc = "called"
    /\ LET c == calls[w]
       IN calls' = [calls EXCEPT ![w] =
                       IF is_blank(c.text)
                       THEN [c EXCEPT !.pc = "return",
                                      !.ret = [text |-> c.text, analyzed_text |-> c.text,
                                               spans |-> <<>>, legend |-> LEGEND_BLANK]]
                       ELSE [c EXCEPT !.pc = IF _NLP # "None" THEN "spacy" ELSE "fallback"]]
    /\ UNCHANGED _NLP
    /\ UNCHANGED sequential

\* the handle is not a parser: calling it raises TypeError
NOT_CALLABLE == [does |-> "raise", doc |-> NO_DOC]

run_spacy_disabling(w, parse) ==
    /\ calls[w].pc = "spacy"
    /\ LET got == IF _NLP = "None" THEN NOT_CALLABLE ELSE parse
       IN calls' = [calls EXCEPT ![w] =
                       IF got.does = "raise"
                       THEN [@ EXCEPT !.pc = "raised", !.parse = got, !.ret = EXCEPTION]
                       ELSE [@ EXCEPT !.pc = "spans", !.parse = got,
                                      !.spans = _analyze_spacy(got.doc)]]
    /\ _NLP' = IF parse.does = "raise" THEN "None" ELSE _NLP
    /\ UNCHANGED sequential

\* _analyze_spacy: the handle is read again and called, the spans are collected
run_spacy(w, parse) ==
    /\ calls[w].pc = "spacy"
    /\ LET got == IF _NLP = "None" THEN NOT_CALLABLE ELSE parse
       IN calls' = [calls EXCEPT ![w] =
                       IF got.does = "raise"
                       THEN [@ EXCEPT !.pc = "raised", !.parse = got, !.ret = EXCEPTION]
                       ELSE [@ EXCEPT !.pc = "spans", !.parse = got,
                                      !.spans = _analyze_spacy(got.doc)]]
    /\ UNCHANGED _NLP
    /\ UNCHANGED sequential

\* _analyze_fallback
run_fallback(w) ==
    /\ calls[w].pc = "fallback"
    /\ calls' = [calls EXCEPT ![w] = [@ EXCEPT !.pc = "spans",
                                                !.spans = _analyze_fallback(calls[w].text)]]
    /\ UNCHANGED _NLP
    /\ UNCHANGED sequential

\* _apply_brackets and the returned dict
materialize(w) ==
    /\ calls[w].pc = "spans"
    /\ calls' = [calls EXCEPT ![w] = [@ EXCEPT !.pc = "return",
                                                !.ret = result(calls[w].text, calls[w].spans)]]
    /\ UNCHANGED _NLP
    /\ UNCHANGED sequential

\* the caller has the result or the exception; the worker is free again
finish(w) ==
    /\ calls[w].pc \in {"return", "raised"}
    /\ calls' = [calls EXCEPT ![w] = NO_CALL]
    /\ UNCHANGED _NLP
    /\ UNCHANGED sequential

----------------------------------------------------------------------------
(* The process: its modules are imported, each body run once *)

UNBOUND == "unbound"

\* _NLP and loads once "from structure_analyzer import analyze_structure" has
\* run: the module body runs if the module is not in sys.modules yet, and
\* spacy.load returns a parser (ok) or the except clause binds None
analyzer_imported(ok) ==
    IF "structure_analyzer" \in sys_modules THEN [nlp |-> _NLP, loads |-> loads]
    ELSE IF ok THEN [nlp |-> "nlp", loads |-> loads + 1]
    ELSE [nlp |-> "None", loads |-> loads]

\* import structure_analyzer (main.py, word_synonym_api.py)
import_structure_analyzer(ok) ==
    /\ "structure_analyzer" \notin sys_modules
    /\ _NLP' = analyzer_imported(ok).nlp
    /\ loads' = analyzer_imported(ok).loads
    /\ sys_modules' = sys_modules \cup {"structure_analyzer"}
    /\ UNCHANGED <<fn, text, spans, extractor, parser_did, raised, ret, calls, paragraph_NLP>>
    /\ UNCHANGED <<spacy_doc, paragraph, flow>>

\* import routers.structure: it imports structure_analyzer
import_routers_structure(ok) ==
    /\ "routers.structure" \notin sys_modules
    /\ _NLP' = analyzer_imported(ok).nlp
    /\ loads' = analyzer_imported(ok).loads
    /\ sys_modules' = sys_modules \cup {"structure_analyzer", "routers.structure"}
    /\ UNCHANGED <<fn, text, spans, extractor, parser_did, raised, ret, calls, paragraph_NLP>>
    /\ UNCHANGED <<spacy_doc, paragraph, flow>>

\* import routers.paragraph: it imports structure_analyzer, then loads a
\* parser of its own (ok2) into its own _NLP
import_routers_paragraph(ok, ok2) ==
    /\ "routers.paragraph" \notin sys_modules
    /\ _NLP' = analyzer_imported(ok).nlp
    /\ loads' = analyzer_imported(ok).loads + (IF ok2 THEN 1 ELSE 0)
    /\ paragraph_NLP' = IF ok2 THEN "nlp" ELSE "None"
    /\ sys_modules' = sys_modules \cup {"structure_analyzer", "routers.paragraph"}
    /\ UNCHANGED <<fn, text, spans, extractor, parser_did, raised, ret, calls>>
    /\ UNCHANGED <<spacy_doc, paragraph, flow>>

----------------------------------------------------------------------------
(* Direct calls of _analyze_spacy.  spans is its local list, as the loop    *)
(* over the tokens leaves it; ret is what it returns.                       *)

\* the state of the last call of the engine and of its helpers
engine == <<fn, text, spans, extractor, parser_did, raised, ret>>

\* what _NLP(text) can do when _analyze_spacy is called directly: no blank
\* test comes before it
direct_outcomes(t) ==
    {[does |-> "raise", doc |-> NO_DOC]}
    \cup {[does |-> "return", doc |-> d] : d \in docs(t)}

analyze_spacy_call(t, parse) ==
    /\ fn' = "_analyze_spacy"
    /\ text' = t
    /\ extractor' = "spacy"
    /\ LET got == IF _NLP = "None" THEN NOT_CALLABLE ELSE parse
       IN /\ spacy_doc' = got.doc
          /\ parser_did' = got.does
          /\ raised' = (got.does = "raise")
          /\ spans' = IF got.does = "raise" THEN <<>>
                      ELSE spacy_candidates(got.doc, 1)
          /\ ret' = IF got.does = "raise" THEN EXCEPTION
                    ELSE _analyze_spacy(got.doc)
    /\ UNCHANGED _NLP
    /\ UNCHANGED <<calls, sys_modules, loads, paragraph_NLP, paragraph, flow>>

\* the caller has taken the spans; doc, a local of the call, is gone
analyze_spacy_done ==
    /\ fn = "_analyze_spacy"
    /\ fn' = "idle"
    /\ text' = <<>>
    /\ spans' = <<>>
    /\ extractor' = "none"
    /\ parser_did' = "not called"
    /\ raised' = FALSE
    /\ ret' = <<>>
    /\ spacy_doc' = NO_DOC
    /\ UNCHANGED _NLP
    /\ UNCHANGED <<calls, sys_modules, loads, paragraph_NLP, paragraph, flow>>

----------------------------------------------------------------------------
(* routers/paragraph.py: the paragraph endpoint *)

RECURSIVE lstrip(_)
lstrip(t) == IF t # <<>> /\ Head(t) \in SPACE_CHARS THEN lstrip(Tail(t)) ELSE t

RECURSIVE rstrip(_)
rstrip(t) ==
    IF t # <<>> /\ t[Len(t)] \in SPACE_CHARS
    THEN rstrip(SubSeq(t, 1, Len(t) - 1))
    ELSE t

\* str.strip()
strip(t) == rstrip(lstrip(t))

\* doc.sents cuts the tokens into consecutive sentences: a set of cuts holds
\* the tokens that end a sentence, the last token always
sentence_cuts(t) ==
    LET n == Len(tokens(t))
    IN IF n = 0 THEN {{}} ELSE {c \in SUBSET (1..n) : n \in c}

\* [s.text.strip() for s in doc.sents if s.text.strip()], from token k on,
\* the sentence under way having begun with the token first
RECURSIVE sents_from(_, _, _, _)
sents_from(t, cuts, first, k) ==
    IF k > Len(tokens(t)) THEN <<>>
    ELSE IF k \in cuts
    THEN LET s == tokens(t)[first][1]
             e == tokens(t)[k][1] + tokens(t)[k][2]
             stripped == strip(SubSeq(t, s + 1, e))
         IN (IF stripped # <<>> THEN <<stripped>> ELSE <<>>)
            \o sents_from(t, cuts, k + 1, k + 1)
    ELSE sents_from(t, cuts, first, k + 1)

SENTENCE_END == {".", "!", "?"}
CAPITALS == {UPPER[i] : i \in 1..26}
CLOSING_MARKS == {"\"", "'", ")", "]"}

\* (?<=[.!?])\s+(?=[A-Z"]) matches at offset i
separator_at(t, i) ==
    /\ i > 0
    /\ i < Len(t)
    /\ at(t, i - 1) \in SENTENCE_END
    /\ at(t, i) \in SPACE_CHARS
    /\ LET e == run_in(t, i, SPACE_CHARS)
       IN e < Len(t) /\ at(t, e) \in CAPITALS \cup {"\""}

\* re.split on that pattern: the parts of t from the offset start on,
\* the scan standing at pos
RECURSIVE re_split(_, _, _)
re_split(t, start, pos) ==
    IF pos >= Len(t) THEN <<SubSeq(t, start + 1, Len(t))>>
    ELSE IF separator_at(t, pos)
    THEN <<SubSeq(t, start + 1, pos)>>
         \o re_split(t, run_in(t, pos, SPACE_CHARS), run_in(t, pos, SPACE_CHARS))
    ELSE re_split(t, start, pos + 1)

\* re.search(r'[.!?]["\')\]]*$', buf); $ also matches before a final newline
ends_sentence(buf) ==
    \E m \in {Len(buf)} \cup {n \in {Len(buf) - 1} : n >= 0 /\ buf[n + 1] = "\n"} :
        \E k \in 1..m :
            /\ buf[k] \in SENTENCE_END
            /\ \A j \in (k + 1)..m : buf[j] \in CLOSING_MARKS

\* the loop over the parts, from the k-th on, and the final "if buf"
RECURSIVE collect(_, _, _)
collect(parts, k, buf) ==
    IF k > Len(parts) THEN (IF buf # <<>> THEN <<buf>> ELSE <<>>)
    ELSE LET p == strip(parts[k])
             b == IF buf # <<>> THEN strip(buf \o <<" ">> \o p) ELSE p
         IN IF p = <<>> THEN collect(parts, k + 1, buf)
            ELSE IF ends_sentence(b) THEN <<b>> \o collect(parts, k + 1, <<>>)
            ELSE collect(parts, k + 1, b)

NO_SPLIT == [does |-> "not called", cuts |-> {}]

\* what _NLP(text) inside _split_sentences can do
split_outcomes(nlp, t) ==
    IF is_blank(t) \/ nlp = "None" THEN {NO_SPLIT}
    ELSE {[does |-> "raise", cuts |-> {}]}
         \cup {[does |-> "return", cuts |-> c] : c \in sentence_cuts(t)}

\* _split_sentences(text) when the call of the parser, if any, has returned
_split_sentences(nlp, t, split) ==
    IF is_blank(t) THEN <<>>
    ELSE IF nlp # "None" /\ sents_from(t, split.cuts, 1, 1) # <<>>
    THEN sents_from(t, split.cuts, 1, 1)
    ELSE collect(re_split(strip(t), 0, 0), 1, <<>>)

\* _normalize_result of routers/paragraph.py; analyze_structure returns a dict
paragraph_normalize_result(r, original_text) ==
    [text |-> r.text, analyzed_text |-> r.analyzed_text, spans |-> r.spans]

\* sep.join(items)
RECURSIVE join(_, _)
join(sep, items) ==
    IF items = <<>> THEN <<>>
    ELSE IF Len(items) = 1 THEN items[1]
    ELSE items[1] \o sep \o join(sep, Tail(items))

\* called lists the arguments of the calls of analyze_structure the request
\* has made so far
NO_PARAGRAPH ==
    [pc |-> "idle", text |-> <<>>, sentences |-> <<>>, called |-> <<>>,
     results |-> <<>>, response |-> <<>>]

around_paragraph == <<calls, sys_modules, loads, paragraph_NLP, spacy_doc, flow>>

\* the request arrives: sentences = _split_sentences(req.text), results = []
analyze_paragraph(t, split) ==
    /\ paragraph.pc = "idle"
    /\ paragraph' =
           IF split.does = "raise"
           THEN [NO_PARAGRAPH EXCEPT !.pc = "raised", !.text = t]
           ELSE [NO_PARAGRAPH EXCEPT !.pc = "loop", !.text = t,
                     !.sentences = _split_sentences(paragraph_NLP, t, split)]
    /\ UNCHANGED _NLP
    /\ UNCHANGED engine
    /\ UNCHANGED around_paragraph

\* the sentence the loop is at
paragraph_current ==
    IF paragraph.pc = "loop" /\ Len(paragraph.results) < Len(paragraph.sentences)
    THEN paragraph.sentences[Len(paragraph.results) + 1]
    ELSE <<>>

paragraph_sentence_prepending(parse) ==
    /\ paragraph.pc = "loop"
    /\ Len(paragraph.results) < Len(paragraph.sentences)
    /\ analyze_structure_run(paragraph_current, parse)
    /\ paragraph' =
           IF raised'
           THEN [paragraph EXCEPT !.pc = "raised",
                                  !.called = Append(@, paragraph_current)]
           ELSE [paragraph EXCEPT
                    !.called = Append(@, paragraph_current),
                    !.results = <<[text |-> ret'.text,
                                   analyzed_text |-> ret'.analyzed_text,
                                   spans |-> ret'.spans,
                                   index |-> Len(paragraph.results) + 1]>> \o @]
    /\ UNCHANGED around_paragraph

\* one turn of the loop: raw = analyze_structure(s), norm, norm["index"] = i,
\* results.append(norm); an exception of the engine ends the request
paragraph_sentence(parse) ==
    /\ paragraph.pc = "loop"
    /\ Len(paragraph.results) < Len(paragraph.sentences)
    /\ analyze_structure_run(paragraph_current, parse)
    /\ paragraph' =
           IF raised'
           THEN [paragraph EXCEPT !.pc = "raised",
                                  !.called = Append(@, paragraph_current)]
           ELSE LET norm == paragraph_normalize_result(ret', paragraph_current)
                IN [paragraph EXCEPT
                       !.called = Append(@, paragraph_current),
                       !.results = Append(@, [text |-> norm.text,
                                              analyzed_text |-> norm.analyzed_text,
                                              spans |-> norm.spans,
                                              index |-> Len(paragraph.results) + 1])]
    /\ UNCHANGED around_paragraph

\* the loop is over: the response is built
paragraph_return ==
    /\ paragraph.pc = "loop"
    /\ Len(paragraph.results) = Len(paragraph.sentences)
    /\ paragraph' =
           [paragraph EXCEPT
               !.pc = "return",
               !.response =
                   [ok |-> TRUE,
                    sentences |-> paragraph.results,
                    full |-> [text |-> paragraph.text,
                              analyzed_text |->
                                  join(<<"\n">>,
                                       [j \in 1..Len(paragraph.results) |->
                                           paragraph.results[j].analyzed_text])]]]
    /\ UNCHANGED _NLP
    /\ UNCHANGED engine
    /\ UNCHANGED around_paragraph

\* the client has the response or the error; the next request can come
paragraph_done ==
    /\ paragraph.pc \in {"return", "raised"}
    /\ paragraph' = NO_PARAGRAPH
    /\ fn' = "idle"
    /\ text' = <<>>
    /\ spans' = <<>>
    /\ extractor' = "none"
    /\ parser_did' = "not called"
    /\ raised' = FALSE
    /\ ret' = <<>>
    /\ UNCHANGED _NLP
    /\ UNCHANGED around_paragraph

----------------------------------------------------------------------------
(* The endpoints POST /analyze_structure and routers/analysis.py.  A JSON   *)
(* value is a record of its kind and its content.                           *)

json_str(s) == [kind |-> "str", val |-> s]
json_dict(d) == [kind |-> "dict", val |-> d]
json_list(l) == [kind |-> "list", val |-> l]
json_true == [kind |-> "bool", val |-> <<>>]

\* None
NONE == [kind |-> "none", val |-> <<>>]

\* the dict analyze_structure returns, or a router's copy of it, as JSON
engine_json(r) ==
    json_dict(("text" :> json_str(r.text))
              @@ ("analyzed_text" :> json_str(r.analyzed_text))
              @@ ("spans" :> json_list(r.spans))
              @@ ("legend" :> json_dict([k \in DOMAIN r.legend |-> json_str(r.legend[k])])))

\* the key of the answer of analyze_text, in the source the Korean for
\* "sentence structure analysis result", written here in Latin letters
RESULT_KEY == "munjang gujo bunseok gyeolgwa"

\* str(e) of an exception of the engine
ERROR_TEXT == <<"e", "r", "r", "o", "r">>

\* analyze_text of main.py: imported is false when the import of
\* analyze_structure failed and the name is None
main_analyze_text(imported, t, threw, r) ==
    [status |-> 200,
     data |-> json_dict(RESULT_KEY :> (IF ~imported \/ threw THEN json_str(t)
                                       ELSE engine_json(r)))]

\* analyze_text of word_synonym_api.py
word_synonym_analyze_text(t, threw, r) ==
    [status |-> 200,
     data |-> IF threw THEN json_dict("error" :> json_str(ERROR_TEXT))
              ELSE json_dict(RESULT_KEY :> engine_json(r))]

\* _normalize_result of routers/structure.py
structure_normalize_result(r, original_text) ==
    [text |-> r.text, analyzed_text |-> r.analyzed_text, spans |-> r.spans,
     legend |-> r.legend]

\* analyze of routers/structure.py: an exception of the engine is a 500
structure_analyze(t, threw, r) ==
    IF threw THEN [status |-> 500, data |-> NONE]
    ELSE [status |-> 200,
          data |-> json_dict(("ok" :> json_true)
                             @@ ("result" :> engine_json(structure_normalize_result(r, t))))]

\* the functions of the repository registered for POST /analyze_structure;
\* in main.py analyze_text is registered before the router of
\* routers/structure.py is included
HANDLERS == {"main.analyze_text", "word_synonym_api.analyze_text", "routers.structure.analyze"}

respond(handler, imported, t, threw, r) ==
    IF handler = "main.analyze_text" THEN main_analyze_text(imported, t, threw, r)
    ELSE IF handler = "word_synonym_api.analyze_text" THEN word_synonym_analyze_text(t, threw, r)
    ELSE structure_analyze(t, threw, r)

\* bool(_BR_RE.search(s or ""))
has_brackets(s) == \E i \in 1..Len(s) : s[i] \in {"[", "]", "(", ")", "{", "}"}

TEXT_KEYS == <<"bracketed", "processed_text", "result", "output", "text">>
CONTAINER_KEYS == <<"data", "payload", "response">>

\* the first of the keys, from the i-th on, under which d holds a string
\* that is not blank: that string stripped, or None
RECURSIVE pick_text(_, _)
pick_text(d, i) ==
    IF i > Len(TEXT_KEYS) THEN NONE
    ELSE IF /\ TEXT_KEYS[i] \in DOMAIN d
            /\ d[TEXT_KEYS[i]].kind = "str"
            /\ strip(d[TEXT_KEYS[i]].val) # <<>>
    THEN json_str(strip(d[TEXT_KEYS[i]].val))
    ELSE pick_text(d, i + 1)

\* the same inside the dicts under the container keys, from the i-th on
RECURSIVE pick_nested(_, _)
pick_nested(d, i) ==
    IF i > Len(CONTAINER_KEYS) THEN NONE
    ELSE IF /\ CONTAINER_KEYS[i] \in DOMAIN d
            /\ d[CONTAINER_KEYS[i]].kind = "dict"
            /\ pick_text(d[CONTAINER_KEYS[i]].val, 1).kind = "str"
    THEN pick_text(d[CONTAINER_KEYS[i]].val, 1)
    ELSE pick_nested(d, i + 1)

\* pick(data) of fetch_bracketed
pick(data) ==
    IF data.kind = "str" THEN json_str(strip(data.val))
    ELSE IF data.kind = "dict"
    THEN (IF pick_text(data.val, 1).kind = "str" THEN pick_text(data.val, 1)
          ELSE pick_nested(data.val, 1))
    ELSE NONE

NO_RESPONSE == [status |-> 0, data |-> NONE]

\* fetch_bracketed once the request has been sent: response is NO_RESPONSE
\* when no answer came
fetch_bracketed(response) ==
    IF response.status # 200 THEN [raises |-> TRUE, value |-> <<>>]
    ELSE IF pick(response.data).kind # "str" \/ pick(response.data).val = <<>>
    THEN [raises |-> TRUE, value |-> <<>>]
    ELSE [raises |-> FALSE, value |-> pick(response.data).val]

\* analyzed is the analyzed_text the engine returned while the request to
\* the endpoint was served
NO_FLOW ==
    [done |-> FALSE, passage |-> <<>>, force_analyze |-> FALSE,
     requested |-> FALSE, handler |-> "none", response |-> NO_RESPONSE,
     engine_returned |-> FALSE, analyzed |-> <<>>, passage_bracketed |-> <<>>]

\* summary_flow(payload): answered tells whether the request to the endpoint
\* reaches a handler, which then calls the engine
summary_flow(passage, force_analyze, answered, handler, parse) ==
    LET requested == force_analyze \/ ~has_brackets(passage)
        served == requested /\ answered
    IN /\ IF served THEN analyze_structure_run(passage, parse)
          ELSE UNCHANGED _NLP /\ UNCHANGED engine
       /\ LET response ==
                  IF served
                  THEN respond(handler, "structure_analyzer" \in sys_modules,
                               passage, raised', ret')
                  ELSE NO_RESPONSE
              fetched == fetch_bracketed(response)
          IN flow' = [done |-> TRUE,
                      passage |-> passage,
                      force_analyze |-> force_analyze,
                      requested |-> requested,
                      handler |-> IF served THEN handler ELSE "none",
                      response |-> response,
                      engine_returned |-> served /\ ~raised',
                      analyzed |-> IF served /\ ~raised' THEN ret'.analyzed_text
                                   ELSE <<>>,
                      passage_bracketed |-> IF requested /\ ~fetched.raises
                                            THEN fetched.value
                                            ELSE passage]
       /\ UNCHANGED <<calls, sys_modules, loads, paragraph_NLP, spacy_doc, paragraph>>

\* the client has the answer of summary_flow; the next request can come
summary_flow_done ==
    /\ flow.done
    /\ flow' = NO_FLOW
    /\ fn' = "idle"
    /\ text' = <<>>
    /\ spans' = <<>>
    /\ extractor' = "none"
    /\ parser_did' = "not called"
    /\ raised' = FALSE
    /\ ret' = <<>>
    /\ UNCHANGED _NLP
    /\ UNCHANGED <<calls, sys_modules, loads, paragraph_NLP, spacy_doc, paragraph>>

----------------------------------------------------------------------------
(* Inputs and specifications *)

MaxPieces == 3

\* the pieces input texts are put together from
PIECES ==
    { <<"t", "o", " ">>, <<"g", "o">>, <<"i", "n", " ">>,
      <<"t", "h", "a", "t", " ">>, <<"i", "f", " ">>,
      <<"a", "f", "t", "e", "r", " ">>,
      <<",">>, <<" ">>, <<"\n">>, <<".">> }

RECURSIVE texts_of(_)
texts_of(n) ==
    IF n = 0 THEN {<<>>}
    ELSE LET shorter == texts_of(n - 1)
         IN shorter \cup {t \o p : t \in shorter, p \in PIECES}

Texts == texts_of(MaxPieces)

\* the texts given to the parser when it is loaded
ParsedTexts ==
    { <<>>, <<" ">>,
      <<"t", "o", " ", "g", "o">>,
      <<" ", "i", "f", " ", " ", "g", "o">>,
      <<"i", "t", " ", "t", "o", " ", "g", "o">> }

\* the sentences of the two documented scenarios
BOOK_TEXT == <<"T", "h", "e", " ", "b", "o", "o", "k", " ", "w", "h", "i", "c", "h", " ", "I", " ", "b", "o", "u", "g", "h", "t", " ", "y", "e", "s", "t", "e", "r", "d", "a", "y", " ", "i", "s", " ", "g", "r", "e", "a", "t", ".">>
HOME_TEXT == <<"I", " ", "w", "a", "n", "t", " ", "t", "o", " ", "g", "o", " ", "h", "o", "m", "e", ".">>

ScenarioTexts == {BOOK_TEXT, HOME_TEXT}

\* n times the letter a
RECURSIVE long_word(_)
long_word(n) == IF n = 0 THEN <<>> ELSE <<"a">> \o long_word(n - 1)

\* a preposition and one word, together one character over PP_MAX_CHARS, alone
\* and inside a sentence
LongPhraseTexts ==
    { <<"i", "n", " ">> \o long_word(PP_MAX_CHARS - 2),
      <<"G", "o", " ", "i", "n", " ">> \o long_word(PP_MAX_CHARS - 2) \o <<".">> }

InputTexts(nlp) ==
    IF nlp = "None" THEN Texts \cup ScenarioTexts \cup LongPhraseTexts ELSE ParsedTexts

\* the module is imported: spacy.load succeeds, or the except clause runs
Init ==
    /\ _NLP \in {"None", "nlp"}
    /\ fn = "idle"
    /\ text = <<>>
    /\ spans = <<>>
    /\ extractor = "none"
    /\ parser_did = "not called"
    /\ raised = FALSE
    /\ ret = <<>>
    /\ calls = [w \in WORKERS |-> NO_CALL]
    /\ sys_modules = {"structure_analyzer"}
    /\ loads = IF _NLP = "nlp" THEN 1 ELSE 0
    /\ paragraph_NLP = UNBOUND
    /\ spacy_doc = NO_DOC
    /\ paragraph = NO_PARAGRAPH
    /\ flow = NO_FLOW

\* one call of analyze_structure, made when no call is in progress
analyze_call ==
    /\ fn = "idle"
    /\ \E t \in InputTexts(_NLP) : \E parse \in parser_outcomes(_NLP, t) :
           analyze_structure(t, parse)

Next == analyze_call \/ next_call

Spec == Init /\ [][Next]_vars

MaxPos == 3

\* the span types direct calls of _flatten_spans are given: two of one
\* priority, and one of each other priority
FLATTEN_TYPES == {"pp", "adj_clause", "to_inf", "participle"}

\* any (start, end, type), start >= end included
Candidates == {<<s, e, ty>> : s \in 0..MaxPos, e \in 0..MaxPos, ty \in FLATTEN_TYPES}

\* direct calls on the lists of up to three candidates, in every order
flatten_call ==
    /\ fn = "idle"
    /\ \/ flatten_spans_call(<<>>)
       \/ \E a \in Candidates : flatten_spans_call(<<a>>)
       \/ \E a \in Candidates : \E b \in Candidates : flatten_spans_call(<<a, b>>)
       \/ \E a \in Candidates : \E b \in Candidates : \E c \in Candidates :
              flatten_spans_call(<<a, b, c>>)

NextFlatten == flatten_call \/ next_call

\* the helpers read no module state: their calls are explored with one handle
InitHelpers == Init /\ _NLP = "None"

SpecFlatten == InitHelpers /\ [][NextFlatten]_vars

\* the span types direct calls of _apply_brackets are given: every known type
\* and one unknown
BRACKET_TYPES ==
    CLAUSE_TYPES \cup PHRASE_TYPES \cup NONFINITE_TYPES \cup {"other"}

BracketSpans == {<<s, e, ty>> : s \in 0..MaxPos, e \in 0..MaxPos, ty \in BRACKET_TYPES}

\* texts without marker characters, of each length up to MaxPos
RECURSIVE plain_text(_)
plain_text(n) == IF n = 0 THEN <<>> ELSE Append(plain_text(n - 1), LOWER[n])

BracketTexts == {plain_text(n) : n \in 0..MaxPos}

\* direct calls on a text and a list of up to two spans
brackets_call ==
    /\ fn = "idle"
    /\ \E t \in BracketTexts :
          \/ apply_brackets_call(t, <<>>)
          \/ \E a \in BracketSpans : apply_brackets_call(t, <<a>>)
          \/ \E a \in BracketSpans : \E b \in BracketSpans :
                 apply_brackets_call(t, <<a, b>>)

NextBrackets == brackets_call \/ next_call

SpecBrackets == InitHelpers /\ [][NextBrackets]_vars

\* calls of analyze_structure and direct calls of _flatten_spans
NextSpans == analyze_call \/ (_NLP = "None" /\ flatten_call) \/ next_call

SpecSpans == Init /\ [][NextSpans]_vars

\* calls of analyze_structure and direct calls of _apply_brackets
NextMaterialize == analyze_call \/ (_NLP = "None" /\ brackets_call) \/ next_call

SpecMaterialize == Init /\ [][NextMaterialize]_vars

\* the texts of concurrent requests
WorkerTexts ==
    { <<" ">>,
      <<"t", "o", " ", "g", "o">>,
      <<"t", "h", "a", "t", " ", "i", "n", " ", "g", "o">> }

\* the texts of concurrent requests when the parser is loaded: one token at most
ParsedWorkerTexts == { <<" ">>, <<"g", "o">> }

WorkerInputs(nlp) == IF nlp = "None" THEN WorkerTexts ELSE ParsedWorkerTexts

\* one step of one worker
worker_step ==
    \E w \in WORKERS :
        \/ \E t \in WorkerInputs(_NLP) : call(w, t)
        \/ enter(w)
        \/ \E parse \in parser_outcomes(_NLP, calls[w].text) : run_spacy(w, parse)
        \/ run_fallback(w)
        \/ materialize(w)
        \/ finish(w)

NextWorkers == worker_step

SpecWorkers == Init /\ [][NextWorkers]_vars

\* the interpreter starts: nothing is imported, no name is bound
InitProcess ==
    /\ _NLP = UNBOUND
    /\ fn = "idle"
    /\ text = <<>>
    /\ spans = <<>>
    /\ extractor = "none"
    /\ parser_did = "not called"
    /\ raised = FALSE
    /\ ret = <<>>
    /\ calls = [w \in WORKERS |-> NO_CALL]
    /\ sys_modules = {}
    /\ loads = 0
    /\ paragraph_NLP = UNBOUND
    /\ spacy_doc = NO_DOC
    /\ paragraph = NO_PARAGRAPH
    /\ flow = NO_FLOW

import_step ==
    \/ \E ok \in BOOLEAN : import_structure_analyzer(ok)
    \/ \E ok \in BOOLEAN : import_routers_structure(ok)
    \/ \E ok \in BOOLEAN : \E ok2 \in BOOLEAN : import_routers_paragraph(ok, ok2)

\* a request is served once the analyzer is imported
request == "structure_analyzer" \in sys_modules /\ analyze_call

NextProcess == import_step \/ request \/ next_call

SpecProcess == InitProcess /\ [][NextProcess]_vars

\* direct calls of _analyze_spacy, the parser loaded
spacy_call ==
    /\ fn = "idle"
    /\ \E t \in ParsedTexts : \E parse \in direct_outcomes(t) :
           analyze_spacy_call(t, parse)

NextSpacy == spacy_call \/ analyze_spacy_done

\* _analyze_spacy is called when the parser is loaded
InitParser == Init /\ _NLP = "nlp"

SpecSpacy == InitParser /\ [][NextSpacy]_vars

\* the pieces paragraphs are put together from
PARAGRAPH_PIECES ==
    { <<"G", "o", ".", " ">>, <<"I", "f", "!">>, <<"t", "o", " ", "g", "o">>,
      <<" ">>, <<"\n">>, <<")">> }

RECURSIVE paragraphs_of(_)
paragraphs_of(n) ==
    IF n = 0 THEN {<<>>}
    ELSE LET shorter == paragraphs_of(n - 1)
         IN shorter \cup {t \o p : t \in shorter, p \in PARAGRAPH_PIECES}

ParagraphTexts == paragraphs_of(MaxPieces)

\* the paragraphs given when one of the two parsers is loaded
ParsedParagraphTexts ==
    { <<>>, <<" ">>, <<"g", "o">>,
      <<"G", "o", ".", " ", "t", "o">>,
      <<"g", "o", " ", "t", "o", " ", "g", "o">> }

ParagraphInputs ==
    IF _NLP = "None" /\ paragraph_NLP = "None" THEN ParagraphTexts
    ELSE ParsedParagraphTexts

\* main.py has imported routers.paragraph: each of the two modules has tried
\* to load its parser
InitParagraph ==
    /\ _NLP \in {"None", "nlp"}
    /\ paragraph_NLP \in {"None", "nlp"}
    /\ fn = "idle"
    /\ text = <<>>
    /\ spans = <<>>
    /\ extractor = "none"
    /\ parser_did = "not called"
    /\ raised = FALSE
    /\ ret = <<>>
    /\ calls = [w \in WORKERS |-> NO_CALL]
    /\ sys_modules = {"structure_analyzer", "routers.paragraph"}
    /\ loads = (IF _NLP = "nlp" THEN 1 ELSE 0) + (IF paragraph_NLP = "nlp" THEN 1 ELSE 0)
    /\ spacy_doc = NO_DOC
    /\ paragraph = NO_PARAGRAPH
    /\ flow = NO_FLOW

paragraph_request ==
    \E t \in ParagraphInputs : \E split \in split_outcomes(paragraph_NLP, t) :
        analyze_paragraph(t, split)

paragraph_step ==
    \E parse \in parser_outcomes(_NLP, paragraph_current) : paragraph_sentence(parse)

NextParagraph ==
    paragraph_request \/ paragraph_step \/ paragraph_return \/ paragraph_done

SpecParagraph == InitParagraph /\ [][NextParagraph]_vars

\* the passages given to summary_flow
FlowTexts(nlp) ==
    IF nlp = "None"
    THEN texts_of(2) \cup {HOME_TEXT, <<"{", "t", "o", " ", "g", "o", "}">>}
    ELSE ParsedWorkerTexts \cup {<<"t", "o", " ", "g", "o">>, <<"(", "g", "o", ")">>}

flow_call ==
    /\ ~flow.done
    /\ \E passage \in FlowTexts(_NLP) : \E force_analyze \in BOOLEAN :
       \E answered \in BOOLEAN : \E handler \in HANDLERS :
       \E parse \in parser_outcomes(_NLP, passage) :
           summary_flow(passage, force_analyze, answered, handler, parse)

NextFlow == flow_call \/ summary_flow_done

SpecFlow == Init /\ [][NextFlow]_vars

----------------------------------------------------------------------------
(* Properties *)

is_result == fn = "analyze_structure" /\ ~raised

\* the characters of a text that equal ch
count_of(t, ch) == Cardinality({i \in 1..Len(t) : t[i] = ch})

\* the spans of a list whose type is in a set of types
count_in(ss, types) == Cardinality({i \in 1..Len(ss) : ss[i][3] \in types})

\* two spans share at least one character of the text
share_char(a, b) == \E k \in a[1]..(a[2] - 1) : b[1] <= k /\ k < b[2]

\* a starts first and ends inside b: they overlap and neither holds the other
crosses(a, b) == a[1] < b[1] /\ b[1] < a[2] /\ a[2] < b[2]

OPENERS == {"(", "[", "{"}
CLOSERS == {")", "]", "}"}
closer_of(ch) == CASE ch = "(" -> ")" [] ch = "[" -> "]" [] ch = "{" -> "}"

\* a left-to-right scan with a stack of the open markers
RECURSIVE balanced(_, _)
balanced(t, stack) ==
    IF t = <<>> THEN stack = <<>>
    ELSE LET ch == Head(t) IN
         IF ch \in OPENERS THEN balanced(Tail(t), <<ch>> \o stack)
         ELSE IF ch \in CLOSERS
              THEN /\ stack # <<>>
                   /\ closer_of(Head(stack)) = ch
                   /\ balanced(Tail(t), Tail(stack))
              ELSE balanced(Tail(t), stack)

\* the markers that stand before the k-th (0-based) character of the text in
\* the output, or behind the last one for k = Len(text); the text has none
RECURSIVE marker_run(_, _)
marker_run(out, k) ==
    IF out = <<>> THEN <<>>
    ELSE IF Head(out) \in OPENERS \cup CLOSERS
         THEN IF k = 0 THEN <<Head(out)>> \o marker_run(Tail(out), 0)
              ELSE marker_run(Tail(out), k)
         ELSE IF k = 0 THEN <<>> ELSE marker_run(Tail(out), k - 1)

closers_first(run) ==
    \A i \in 1..Len(run) : \A j \in 1..Len(run) :
        (i < j /\ run[i] \in OPENERS) => run[j] \notin CLOSERS

well_formed(t, ss) == \A i \in 1..Len(ss) : 0 <= ss[i][1] /\ ss[i][1] < ss[i][2] /\ ss[i][2] <= Len(t)

non_crossing(ss) == \A i \in 1..Len(ss) : \A j \in 1..Len(ss) : ~crosses(ss[i], ss[j])

\* C1: analyze_structure never raises; when the parser raises during the call
\* the call returns what the pattern extractor gives for the text.
C1_NeverRaises ==
    fn = "analyze_structure" =>
        /\ ~raised
        /\ parser_did = "raise" => ret = result(text, _analyze_fallback(text))

\* C2: every result has len(analyzed_text) = len(text) + 2 * len(spans).
C2_LengthInvariant ==
    is_result => Len(ret.analyzed_text) = Len(ret.text) + 2 * Len(ret.spans)

\* a result of the pattern extractor with two spans, the last of which ends
\* where the text ends
C2_Witness ==
    /\ is_result
    /\ extractor = "fallback"
    /\ Len(ret.spans) = 2
    /\ ret.spans[2].end = Len(text)

\* C3: for well-formed, non-crossing spans the markers _apply_brackets inserts
\* are nested and paired, and at every offset the closing markers of the spans
\* that end there stand before the opening markers of the spans that begin there.
C3_NestedAndClosersFirst ==
    (fn = "_apply_brackets" /\ well_formed(text, spans) /\ non_crossing(spans)) =>
        /\ balanced(ret, <<>>)
        /\ \A k \in 0..Len(text) : closers_first(marker_run(ret, k))

\* C4: no two spans of the output of _flatten_spans partially overlap, for
\* any input list.
C4_NonCrossing ==
    fn = "_flatten_spans" => non_crossing(ret)

\* C5: no two NonFinite spans of the output of _flatten_spans overlap, for
\* any input list.
C5_NonFiniteExclusive ==
    fn = "_flatten_spans" =>
        \A i \in 1..Len(ret) : \A j \in 1..Len(ret) :
            (i # j /\ ret[i][3] \in NONFINITE_TYPES /\ ret[j][3] \in NONFINITE_TYPES)
                => ~share_char(ret[i], ret[j])

\* C6: for empty or whitespace-only text analyze_structure returns the text
\* unchanged with no spans, and invokes no extractor.
C6_BlankInput ==
    (fn = "analyze_structure" /\ \A i \in 1..Len(text) : text[i] \in SPACE_CHARS) =>
        /\ ~raised
        /\ ret.text = text
        /\ ret.analyzed_text = text
        /\ ret.spans = <<>>
        /\ extractor = "none"
        /\ parser_did = "not called"

\* a whitespace-only text analyzed while the parser is loaded
C6_Witness ==
    /\ fn = "analyze_structure"
    /\ _NLP = "nlp"
    /\ text = <<" ">>
    /\ ret.analyzed_text = <<" ">>

\* C7: every result carries the same legend, the one of non-blank input.
C7_FixedLegend ==
    is_result => ret.legend = LEGEND

\* C8: _apply_brackets inserts one "[" and one "]" per Clause span, one "{" and
\* one "}" per NonFinite span, one "(" and one ")" per other span and nothing
\* else; the groups are those of _priority (3 braces, 2 square, 1 round).
C8_MarkersByGroup ==
    fn = "_apply_brackets" =>
        LET others == BRACKET_TYPES \ (CLAUSE_TYPES \cup NONFINITE_TYPES)
            with_priority(p) == Cardinality({i \in 1..Len(spans) : _priority(spans[i][3]) = p})
        IN /\ Len(ret) = Len(text) + 2 * Len(spans)
           /\ count_of(ret, "[") = count_in(spans, CLAUSE_TYPES)
           /\ count_of(ret, "]") = count_in(spans, CLAUSE_TYPES)
           /\ count_of(ret, "{") = count_in(spans, NONFINITE_TYPES)
           /\ count_of(ret, "}") = count_in(spans, NONFINITE_TYPES)
           /\ count_of(ret, "(") = count_in(spans, others)
           /\ count_of(ret, ")") = count_in(spans, others)
           /\ count_of(ret, "{") = with_priority(3)
           /\ count_of(ret, "[") = with_priority(2)
           /\ count_of(ret, "(") = with_priority(1)

\* a NonFinite span and a Phrase span bracketed in one call
C8_Witness ==
    /\ fn = "_apply_brackets"
    /\ well_formed(text, spans)
    /\ Len(spans) = 2
    /\ spans[1][3] = "participle"
    /\ spans[2][3] = "short_phrase"
    /\ count_of(ret, "{") = 1
    /\ count_of(ret, ")") = 1

\* C9: every span of a result has 0 <= start < end <= len(text).
C9_SpanBounds ==
    is_result =>
        \A i \in 1..Len(ret.spans) :
            /\ 0 <= ret.spans[i].start
            /\ ret.spans[i].start < ret.spans[i].end
            /\ ret.spans[i].end <= Len(text)

\* a result of the pattern extractor whose span reaches the end of the text
C9_Witness ==
    /\ is_result
    /\ extractor = "fallback"
    /\ Len(ret.spans) > 0
    /\ ret.spans[Len(ret.spans)].end = Len(text)

\* C10: the spans of every result, and the output of _flatten_spans for any
\* input, are in ascending order of start.
C10_StartAscending ==
    /\ is_result =>
           \A i \in 1..(Len(ret.spans) - 1) : ret.spans[i].start <= ret.spans[i + 1].start
    /\ fn = "_flatten_spans" =>
           \A i \in 1..(Len(ret) - 1) : ret[i][1] <= ret[i + 1][1]

\* a direct call whose input, two spans with start < end, is in descending
\* order of start and whose output keeps both spans
C10_Witness ==
    /\ fn = "_flatten_spans"
    /\ Len(spans) = 2
    /\ \A i \in 1..2 : spans[i][1] < spans[i][2]
    /\ spans[1][1] > spans[2][1]
    /\ Len(ret) = 2

\* the k characters of t from offset i on
slice(t, i, k) == SubSeq(t, i + 1, i + k)

\* the text w stands somewhere in the text t
contains(t, w) == \E i \in 0..(Len(t) - Len(w)) : slice(t, i, Len(w)) = w

\* the span of a result that covers exactly the words w of the text, if any
covering(w, type) ==
    {i \in 1..Len(ret.spans) :
        /\ ret.spans[i].type = type
        /\ ret.spans[i].end - ret.spans[i].start = Len(w)
        /\ slice(text, ret.spans[i].start, Len(w)) = w}

BOOK_CLAUSE == <<"w", "h", "i", "c", "h", " ", "I", " ", "b", "o", "u", "g", "h", "t", " ", "y", "e", "s", "t", "e", "r", "d", "a", "y">>
BOOK_ANALYZED == <<"b", "o", "o", "k", " ", "[", "w", "h", "i", "c", "h", " ", "I", " ", "b", "o", "u", "g", "h", "t", " ", "y", "e", "s", "t", "e", "r", "d", "a", "y", "]", " ", "i", "s">>

\* C12: for "The book which I bought yesterday is great." the pattern
\* extractor gives an adj_clause span that covers exactly "which I bought
\* yesterday", and the analyzed text contains "book [which I bought yesterday] is".
C12_RelativeClauseScenario ==
    (is_result /\ extractor = "fallback" /\ text = BOOK_TEXT) =>
        /\ covering(BOOK_CLAUSE, "adj_clause") # {}
        /\ contains(ret.analyzed_text, BOOK_ANALYZED)

HOME_INFINITIVE == <<"t", "o", " ", "g", "o", " ", "h", "o", "m", "e">>
HOME_ANALYZED == <<"I", " ", "w", "a", "n", "t", " ", "{", "t", "o", " ", "g", "o", " ", "h", "o", "m", "e", "}", ".">>

\* C13: for "I want to go home." on the pattern path the result has a to_inf
\* span that covers exactly "to go home", no pp span over the same words, and
\* the analyzed text "I want {to go home}.".
C13_ToInfinitiveScenario ==
    (is_result /\ extractor = "fallback" /\ text = HOME_TEXT) =>
        /\ covering(HOME_INFINITIVE, "to_inf") # {}
        /\ covering(HOME_INFINITIVE, "pp") = {}
        /\ ret.analyzed_text = HOME_ANALYZED

\* the sentence analyzed on the pattern path, where both the to-infinitive
\* pattern and the preposition pattern match "to go home"
C13_Witness ==
    /\ is_result
    /\ extractor = "fallback"
    /\ text = HOME_TEXT
    /\ finditer("_TO_INF_RE", text, 0) = <<<<7, 17>>>>
    /\ finditer("_PP_RE", text, 0) = <<<<7, 17>>>>
    /\ Len(ret.spans) = 1

\* the spans of a list as a set
span_set(ss) == {ss[i] : i \in 1..Len(ss)}

starts_before_end(ss) == \A i \in 1..Len(ss) : ss[i][1] < ss[i][2]

\* C14: for an input of exactly two overlapping spans, one to_inf and one pp,
\* in either list order and whichever starts first or is longer,
\* _flatten_spans returns the to_inf span alone.
C14_ToInfOverPp ==
    (fn = "_flatten_spans" /\ Len(spans) = 2) =>
        \A i \in 1..2 : \A j \in 1..2 :
            (spans[i][3] = "to_inf" /\ spans[j][3] = "pp" /\ share_char(spans[i], spans[j]))
                => ret = <<spans[i]>>

\* the pp span is first in the list, starts first and is the longer one
C14_Witness ==
    /\ fn = "_flatten_spans"
    /\ Len(spans) = 2
    /\ spans[1][3] = "pp"
    /\ spans[2][3] = "to_inf"
    /\ spans[1][1] < spans[2][1]
    /\ spans[2][2] < spans[1][2]
    /\ spans[2][1] < spans[2][2]
    /\ ret = <<spans[2]>>

\* C17: whenever two spans of the input of _flatten_spans overlap and differ in
\* priority, the one of lower priority is not in the output.
C17_LowerPriorityRemoved ==
    fn = "_flatten_spans" =>
        \A i \in 1..Len(spans) : \A j \in 1..Len(spans) :
            (share_char(spans[i], spans[j]) /\ _priority(spans[i][3]) < _priority(spans[j][3]))
                => spans[i] \notin span_set(ret)

\* C18: no span with start >= end is in the output of _flatten_spans.
C18_MalformedDropped ==
    fn = "_flatten_spans" => starts_before_end(ret)

----------------------------------------------------------------------------
(* The resolution procedure as it is documented, for comparison *)

ref_length(s) == s[2] - s[1]

\* a goes before b: start ascending, length descending, priority descending
ref_before(a, b) ==
    \/ a[1] < b[1]
    \/ a[1] = b[1] /\ ref_length(a) > ref_length(b)
    \/ a[1] = b[1] /\ ref_length(a) = ref_length(b) /\ _priority(a[3]) > _priority(b[3])

\* the list sorted: its first span that none goes before, then the rest
\* sorted (spans of which neither goes before the other stay in input order)
RECURSIVE ref_sorted(_)
ref_sorted(ss) ==
    IF ss = <<>> THEN <<>>
    ELSE LET n == Len(ss)
             k == CHOOSE k \in 1..n :
                     /\ \A j \in 1..n : ~ref_before(ss[j], ss[k])
                     /\ \A j \in 1..(k - 1) : ref_before(ss[k], ss[j])
         IN <<ss[k]>> \o ref_sorted(SubSeq(ss, 1, k - 1) \o SubSeq(ss, k + 1, n))

\* the ranges [start, end) of two spans overlap
ref_overlap(a, b) == ~(a[2] <= b[1] \/ b[2] <= a[1])

\* the accepted list after the first k spans of the arrangement
RECURSIVE ref_accepted(_, _)
ref_accepted(ss, k) ==
    IF k = 0 THEN <<>>
    ELSE LET acc == ref_accepted(ss, k - 1)
             c == ss[k]
         IN IF acc = <<>> THEN <<c>>
            ELSE IF ~ref_overlap(c, acc[Len(acc)]) THEN acc \o <<c>>
            ELSE IF _priority(c[3]) > _priority(acc[Len(acc)][3])
                 THEN SubSeq(acc, 1, Len(acc) - 1) \o <<c>>
                 ELSE acc

\* C19: the output of _flatten_spans is what the documented procedure gives:
\* the input sorted by (start ascending, length descending, priority
\* descending), then swept left to right, each candidate compared with the last
\* accepted span only: accepted if they do not overlap, put in its place if
\* they overlap and the candidate's priority is strictly higher, else discarded.
C19_ReferenceProcedure ==
    fn = "_flatten_spans" =>
        ret = ref_accepted(ref_sorted(spans), Len(spans))

\* three spans given out of order: one is accepted, one takes its place, and
\* one that overlaps neither is accepted behind it
C19_Witness ==
    /\ fn = "_flatten_spans"
    /\ Len(spans) = 3
    /\ starts_before_end(spans)
    /\ spans[1][1] > spans[2][1]
    /\ Len(ret) = 2
    /\ \E i \in 1..3 : /\ spans[i] \notin span_set(ret)
                        /\ spans[i][1] < ret[1][1]
                        /\ share_char(spans[i], ret[1])
                        /\ _priority(spans[i][3]) < _priority(ret[1][3])

\* C20: for an input whose spans all have start < end, the spans of the output
\* of _flatten_spans are pairwise disjoint: none overlaps or lies inside another.
C20_PairwiseDisjoint ==
    (fn = "_flatten_spans" /\ starts_before_end(spans)) =>
        \A i \in 1..Len(ret) : \A j \in 1..Len(ret) :
            i # j => ~share_char(ret[i], ret[j])

\* an input with one span inside another of the same priority and a third
\* span behind them: the inner span is gone, the other two are kept
C20_Witness ==
    /\ fn = "_flatten_spans"
    /\ Len(spans) = 3
    /\ starts_before_end(spans)
    /\ \E i \in 1..3 : \E j \in 1..3 :
          /\ spans[j][1] <= spans[i][1] /\ spans[i][2] <= spans[j][2]
          /\ spans[i][2] - spans[i][1] < spans[j][2] - spans[j][1]
          /\ _priority(spans[i][3]) = _priority(spans[j][3])
          /\ spans[i] \notin span_set(ret)
          /\ spans[j] \in span_set(ret)
    /\ Len(ret) = 2

\* analyze_structure(t) run alone raises, the parser doing what it did in the call
raises_alone(nlp, t, parse) == ~is_blank(t) /\ nlp # "None" /\ parse.does = "raise"

\* what analyze_structure(t) run alone returns when it does not raise
run_alone(nlp, t, parse) ==
    IF is_blank(t)
    THEN [text |-> t, analyzed_text |-> t, spans |-> <<>>, legend |-> LEGEND_BLANK]
    ELSE IF nlp = "None" THEN result(t, _analyze_fallback(t))
    ELSE result(t, _analyze_spacy(parse.doc))

\* C15: under any interleaving of concurrent calls of analyze_structure no
\* step writes the handle _NLP, and every call ends with the result it has
\* when it runs alone.
C15_NoSharedWrites ==
    /\ [][_NLP' = _NLP]_vars
    /\ [](\A w \in WORKERS :
            /\ calls[w].pc = "raised" => raises_alone(_NLP, calls[w].text, calls[w].parse)
            /\ calls[w].pc = "return" =>
                  /\ ~raises_alone(_NLP, calls[w].text, calls[w].parse)
                  /\ calls[w].ret = run_alone(_NLP, calls[w].text, calls[w].parse))

\* one call has returned its spans while another is between the two reads of
\* the handle
C15_Witness ==
    /\ calls["w1"].pc = "return"
    /\ calls["w1"].parse.does = "return"
    /\ Len(calls["w1"].ret.spans) > 0
    /\ calls["w2"].pc = "spacy"

\* C16: in one process spacy.load gives a parser at most once, whatever is
\* imported and requested, and a bound handle is never bound again.
C16_LoadedOnce ==
    /\ [](loads <= 1)
    /\ [][_NLP # UNBOUND => _NLP' = _NLP]_vars
    /\ [][paragraph_NLP # UNBOUND => paragraph_NLP' = paragraph_NLP]_vars

\* C21: every span of the input that is not in the output of _flatten_spans
\* overlaps a span that is in the output.
C21_OmittedOverlapsKept ==
    fn = "_flatten_spans" =>
        \A i \in 1..Len(spans) :
            spans[i] \notin span_set(ret) =>
                \E j \in 1..Len(ret) : share_char(spans[i], ret[j])

\* the spans of a result as tuples
reported(dicts) == [i \in 1..Len(dicts) |-> <<dicts[i].start, dicts[i].end, dicts[i].type>>]

\* spans as analyze_structure reports them: inside the text, start ascending,
\* pairwise disjoint
as_reported(t, ss) ==
    /\ well_formed(t, ss)
    /\ \A i \in 1..(Len(ss) - 1) : ss[i][1] <= ss[i + 1][1]
    /\ \A i \in 1..Len(ss) : \A j \in 1..Len(ss) : i # j => ~share_char(ss[i], ss[j])

\* the 0-based positions in the output of the two markers of the i-th span
\* (i counted from 1 here)
opening_at(ss, i) == ss[i][1] + 2 * (i - 1)
closing_at(ss, i) == ss[i][2] + 2 * (i - 1) + 1
insertion_positions(ss) ==
    {opening_at(ss, i) : i \in 1..Len(ss)} \cup {closing_at(ss, i) : i \in 1..Len(ss)}

\* the text left when the characters at the 0-based positions P are deleted
RECURSIVE deleted(_, _, _)
deleted(out, P, k) ==
    IF k >= Len(out) THEN <<>>
    ELSE (IF k \in P THEN <<>> ELSE <<at(out, k)>>) \o deleted(out, P, k + 1)

brackets_removable(t, out, ss) ==
    /\ Cardinality(insertion_positions(ss)) = 2 * Len(ss)
    /\ \A p \in insertion_positions(ss) :
          p < Len(out) /\ at(out, p) \in OPENERS \cup CLOSERS
    /\ deleted(out, insertion_positions(ss), 0) = t
    /\ \A i \in 1..Len(ss) :
          slice(out, opening_at(ss, i) + 1, ss[i][2] - ss[i][1])
              = slice(t, ss[i][1], ss[i][2] - ss[i][1])

\* C22: deleting the 2 * len(spans) inserted markers from the analyzed text
\* gives the text back: the markers of the i-th reported span (0-based) are at
\* start_i + 2i and end_i + 2i + 1, the characters between them are
\* text[start_i:end_i], and nothing else is lost, doubled or moved.
C22_BracketsRemovable ==
    /\ is_result => brackets_removable(text, ret.analyzed_text, reported(ret.spans))
    /\ (fn = "_apply_brackets" /\ as_reported(text, spans)) =>
           brackets_removable(text, ret, spans)

\* two spans, the second beginning where the first ends
C22_Witness ==
    /\ fn = "_apply_brackets"
    /\ as_reported(text, spans)
    /\ Len(spans) = 2
    /\ spans[1][2] = spans[2][1]
    /\ spans[1][3] \in CLAUSE_TYPES
    /\ spans[2][3] \in NONFINITE_TYPES

\* C23: _flatten_spans only selects and is idempotent: every span of its
\* output is a span of its input, unchanged, and applied to its own output it
\* returns that output.
C23_SelectsIdempotent ==
    fn = "_flatten_spans" =>
        /\ span_set(ret) \subseteq span_set(spans)
        /\ _flatten_spans(ret) = ret

\* an input, given out of order, of which one span is dropped, one replaced
\* and one kept
C23_Witness ==
    /\ fn = "_flatten_spans"
    /\ Len(spans) = 3
    /\ Len(ret) = 1
    /\ ret[1] = spans[1]
    /\ spans[3][1] < spans[2][1]
    /\ spans[2][1] < spans[1][1]
    /\ starts_before_end(spans)
    /\ share_char(spans[1], spans[2]) /\ share_char(spans[2], spans[3])

is_fallback_result == is_result /\ extractor = "fallback"

\* the spans of the result that have the type
of_type(type) == {i \in 1..Len(ret.spans) : ret.spans[i].type = type}

\* the word w, in any case, stands at the start of the i-th span of the result
begins_with(i, w) == literal_at(text, ret.spans[i].start, w)

RELATIVE_PRONOUNS ==
    { <<"w", "h", "i", "c", "h">>, <<"w", "h", "o">>, <<"w", "h", "o", "m">>,
      <<"w", "h", "o", "s", "e">>, <<"t", "h", "a", "t">> }

CLAUSE_PUNCTUATION == {".", ",", ";", "?", "!"}

\* C24: every adj_clause span of the pattern extractor starts at the first
\* character of a relative pronoun (which, who, whom, whose, that), ends right
\* before the next clause-ending punctuation mark (. , ; ? !) or at the end of
\* the text, and is at least 5 characters long.
C24_RelativeClauseShape ==
    is_fallback_result =>
        \A i \in of_type("adj_clause") :
            /\ \E w \in RELATIVE_PRONOUNS : begins_with(i, w)
            /\ \A k \in ret.spans[i].start..(ret.spans[i].end - 1) :
                   at(text, k) \notin CLAUSE_PUNCTUATION
            /\ \/ ret.spans[i].end = Len(text)
               \/ at(text, ret.spans[i].end) \in CLAUSE_PUNCTUATION
            /\ ret.spans[i].end - ret.spans[i].start >= 5

\* C25: the pattern extractor returns no pp span longer than 40 characters.
C25_ShortPhrasesOnly ==
    is_fallback_result =>
        \A i \in of_type("pp") : ret.spans[i].end - ret.spans[i].start <= 40

SUBORDINATORS ==
    { <<"b", "e", "c", "a", "u", "s", "e">>, <<"w", "h", "e", "n">>,
      <<"w", "h", "i", "l", "e">>, <<"a", "l", "t", "h", "o", "u", "g", "h">>,
      <<"t", "h", "o", "u", "g", "h">>, <<"s", "i", "n", "c", "e">>,
      <<"a", "s">>, <<"i", "f">>, <<"u", "n", "l", "e", "s", "s">>,
      <<"u", "n", "t", "i", "l">>, <<"o", "n", "c", "e">>,
      <<"w", "h", "e", "r", "e", "a", "s">>, <<"w", "h", "e", "r", "e">>,
      <<"s", "o", " ", "t", "h", "a", "t">>,
      <<"i", "n", " ", "o", "r", "d", "e", "r", " ", "t", "h", "a", "t">> }

\* C26 as stated: every adv_clause span of the pattern extractor begins with
\* one of because, when, while, although, though, since, as, if, unless, until,
\* once, whereas, where, so that, in order that, and with no other word.
C26_ClosedSubordinators ==
    is_fallback_result =>
        \A i \in of_type("adv_clause") : \E w \in SUBORDINATORS : begins_with(i, w)

\* C26: every adv_clause span of the pattern extractor begins, in any case,
\* with one of the subordinators above or with after or before, at a word
\* boundary, and with no other word.
C26_SubordinatorsWithAfterBefore ==
    is_fallback_result =>
        \A i \in of_type("adv_clause") :
            /\ word_boundary(text, ret.spans[i].start)
            /\ \E w \in SUBORDINATORS \cup {<<"a", "f", "t", "e", "r">>,
                                             <<"b", "e", "f", "o", "r", "e">>} :
                   begins_with(i, w)

\* a result with an adv_clause span that begins with after, behind a
\* relative clause
C26_Witness ==
    /\ is_fallback_result
    /\ Len(ret.spans) = 2
    /\ ret.spans[1].type = "adj_clause"
    /\ ret.spans[2].type = "adv_clause"
    /\ begins_with(2, <<"a", "f", "t", "e", "r">>)

is_spacy_result == fn = "_analyze_spacy" /\ ~raised

\* the tokens of the document with the dependency relation
with_dep(dep) == {k \in 1..Len(spacy_doc.tok) : spacy_doc.ann[k].dep = dep}

\* the token k and the tokens below it in the tree
own_tokens(k) ==
    {i \in 1..Len(spacy_doc.tok) :
        has_ancestor(spacy_doc.head, i, k, Len(spacy_doc.tok))}

\* from the first character of the leftmost of those tokens to the end of the
\* rightmost
own_range(k) ==
    <<CHOOSE s \in {spacy_doc.tok[i][1] : i \in own_tokens(k)} :
          \A i \in own_tokens(k) : s <= spacy_doc.tok[i][1],
      CHOOSE e \in {spacy_doc.tok[i][1] + spacy_doc.tok[i][2] : i \in own_tokens(k)} :
          \A i \in own_tokens(k) : spacy_doc.tok[i][1] + spacy_doc.tok[i][2] <= e>>

\* subject, direct object, object of preposition, predicate, passive subject
ANCHOR_DEPS == {"nsubj", "dobj", "pobj", "attr", "nsubjpass"}

\* the token reached from k by walking up the head chain to a token with one
\* of those relations, 0 when the root is passed without meeting one
RECURSIVE anchor_of(_, _)
anchor_of(k, fuel) ==
    IF spacy_doc.ann[k].dep \in ANCHOR_DEPS THEN k
    ELSE IF fuel = 0 \/ spacy_doc.head[k] = k THEN 0
    ELSE anchor_of(spacy_doc.head[k], fuel - 1)

\* the list of candidates holds the span
emitted(range, type) ==
    \E i \in 1..Len(spans) : spans[i] = <<range[1], range[2], type>>

\* C27 as stated: the adj_clause span the dependency extractor emits for a
\* relcl token has the range of the subtree of the token reached by walking
\* up the head chain to a subject, object, predicate or passive subject.
C27_AnchoredToNoun ==
    is_spacy_result =>
        \A k \in with_dep("relcl") :
            anchor_of(k, Len(spacy_doc.tok)) # 0 =>
                emitted(own_range(anchor_of(k, Len(spacy_doc.tok))), "adj_clause")

\* C27: the adj_clause span the dependency extractor emits for a relcl token
\* has the range of the subtree of the relcl token itself, and every
\* adj_clause span it emits has the range of the subtree of a relcl or acl
\* token: the head chain is not walked.
C27_ClauseOnly ==
    is_spacy_result =>
        /\ \A k \in with_dep("relcl") : emitted(own_range(k), "adj_clause")
        /\ \A i \in 1..Len(spans) :
               spans[i][3] = "adj_clause" =>
                   \E k \in with_dep("relcl") \cup with_dep("acl") :
                       <<spans[i][1], spans[i][2]>> = own_range(k)

\* a relcl token with a token below it, under a subject whose subtree is
\* wider than the clause
C27_Witness ==
    /\ is_spacy_result
    /\ \E k \in with_dep("relcl") :
           /\ Cardinality(own_tokens(k)) = 2
           /\ anchor_of(k, Len(spacy_doc.tok)) \notin {0, k}
           /\ own_range(anchor_of(k, Len(spacy_doc.tok))) # own_range(k)
           /\ emitted(own_range(k), "adj_clause")

INTRODUCERS ==
    { <<"t", "h", "a", "t">>, <<"i", "f">>, <<"w", "h", "e", "t", "h", "e", "r">> }

\* C28: every noun_clause span the dependency extractor emits starts at the
\* word that, if or whether; a ccomp token whose clause no such word
\* introduces gives no noun_clause span.
C28_OnlyIntroducedClauses ==
    is_spacy_result =>
        \A i \in 1..Len(spans) :
            spans[i][3] = "noun_clause" =>
                \E w \in INTRODUCERS : literal_at(text, spans[i][1], w)

\* the lines one after the other, a newline between two
RECURSIVE lines_joined(_, _)
lines_joined(lines, n) ==
    IF n = 0 THEN <<>>
    ELSE IF n = 1 THEN lines[1]
    ELSE lines_joined(lines, n - 1) \o <<"\n">> \o lines[n]

\* C29: at every point of a request to the paragraph endpoint the calls of
\* analyze_structure made so far are the first sentences of the split, one
\* call each, in order, the last of them the latest call of the engine, and
\* the results so far are numbered 1, 2, ... in that order; when the endpoint
\* returns, every sentence has been analysed once, the results are numbered
\* 1..n in sentence order and full.analyzed_text is their analyzed_text
\* values joined by a newline; for blank input the engine is never called.
C29_OncePerSentenceInOrder ==
    /\ Len(paragraph.called) <= Len(paragraph.sentences)
    /\ \A j \in 1..Len(paragraph.called) :
           paragraph.called[j] = paragraph.sentences[j]
    /\ paragraph.called # <<>> =>
           /\ fn = "analyze_structure"
           /\ text = paragraph.called[Len(paragraph.called)]
    /\ Len(paragraph.results) <= Len(paragraph.called)
    /\ \A j \in 1..Len(paragraph.results) :
           /\ paragraph.results[j].index = j
           /\ paragraph.results[j].text = paragraph.sentences[j]
    /\ (paragraph.results # <<>> /\ Len(paragraph.results) = Len(paragraph.called)) =>
           paragraph.results[Len(paragraph.results)].analyzed_text = ret.analyzed_text
    /\ paragraph.pc = "return" =>
           /\ paragraph.called = paragraph.sentences
           /\ paragraph.response.sentences = paragraph.results
           /\ Len(paragraph.results) = Len(paragraph.sentences)
           /\ paragraph.response.full.text = paragraph.text
           /\ paragraph.response.full.analyzed_text =
                  lines_joined([j \in 1..Len(paragraph.results) |->
                                   paragraph.results[j].analyzed_text],
                               Len(paragraph.results))
    /\ is_blank(paragraph.text) => paragraph.called = <<>>

\* the endpoint has returned for a paragraph of two different sentences at
\* least, one of them with a span
C29_Witness ==
    /\ paragraph.pc = "return"
    /\ Len(paragraph.sentences) >= 2
    /\ paragraph.sentences[1] # paragraph.sentences[2]
    /\ \E j \in 1..Len(paragraph.results) : paragraph.results[j].spans # <<>>
    /\ paragraph.response.full.analyzed_text # paragraph.text

\* C30: when summary_flow asks for the analysis and the endpoint answers
\* with status 200, the engine having returned, passage_bracketed is the
\* analyzed_text of the engine for the passage.
C30_BracketedWhenAnswered ==
    (flow.done /\ flow.requested /\ flow.response.status = 200 /\ flow.engine_returned) =>
        flow.passage_bracketed = flow.analyzed

====
